---- MODULE Spec2Model ----
(***************************************************************************)
(* Atlas dashboard (frontend): the risk banding of lib/utils.ts, the       *)
(* RiskGauge and SHAPWaterfall components and the transaction detail page  *)
(* with its built-in fallback assessment.                                  *)
(*                                                                         *)
(* Numbers.  Every score, impact and feature value of the source is a      *)
(* JavaScript number with at most one decimal; the model keeps them as     *)
(* integers counted in tenths (18.2 is 182, the threshold 80 is 800).      *)
(* impact_percentage values are whole percentage points.                   *)
(***************************************************************************)
EXTENDS Integers, Sequences, FiniteSets, TLC

VARIABLES
    gauge,          \* the mounted RiskGauge: its score prop, its label and colour
    contributions,  \* the contributions prop handed to SHAPWaterfall
    waterfall,      \* what SHAPWaterfall rendered for that prop
    transactionId,  \* params.id of the detail page
    query,          \* useQuery's result: status and data
    page,           \* what TransactionDetailPage rendered
    panel,          \* the mounted ExplanationPanel: its riskScore prop and headline icon
    scoring,        \* how the core produced the assessment in query.data
    url,                \* WebSocketClient.url
    ws,                 \* WebSocketClient.ws: 0 is null, i > 0 is sockets[i]
    reconnectAttempts,  \* WebSocketClient.reconnectAttempts
    subscriptions,      \* WebSocketClient.subscriptions
    sockets,            \* every WebSocket created so far: readyState, messages sent
    timers,             \* the delays of the pending setTimeout callbacks
    scheduledSinceOpen, \* history: setTimeout calls since the last onopen
    userDisconnected,   \* history: disconnect() left a connected client, no connect() since
    calls,              \* history: the user's calls of connect() and disconnect()
    handlers,           \* WebSocketClient.handlers: a Set, in its insertion order
    issued,             \* history: the handlers whose unsubscribe function exists
    active,             \* history: registered, and not unsubscribed since
    delivery            \* what onmessage did with the event of the latest step

pageVars == <<gauge, contributions, waterfall, transactionId, query, page, panel, scoring>>

clientVars ==
    <<url, ws, reconnectAttempts, subscriptions, sockets, timers,
      scheduledSinceOpen, userDisconnected, calls>>

handlerVars == <<handlers, issued, active, delivery>>

vars == <<pageVars, clientVars, handlerVars>>

(***************************************************************************)
(* Bounds of the model.                                                    *)
(***************************************************************************)
\* scores run from -MaxBelow to MaxScore tenths, so both ends leave [0,100]
MaxBelow == 20
MaxScore == 1020
\* longest contributions list handed to the standalone SHAPWaterfall
MaxLen == 8
\* WebSockets one client creates, setTimeout callbacks pending at once, and
\* calls of connect() and disconnect() the user makes
MaxSockets == 6
MaxTimers == 2
MaxCalls == 3
\* where subscribe() is called too: WebSockets the client creates and
\* messages it sends on one of them
MaxBriefSockets == 2
MaxSent == 2
\* entries of the handlers collection
MaxHandlers == 3

Scores == (0 - MaxBelow) .. MaxScore

\* the signed impacts (tenths) an arbitrary contribution may carry: two of
\* equal magnitude and opposite sign, a zero, and a smaller positive one
Impacts == {-20, 0, 10, 20}

Abs(x) == IF x < 0 THEN 0 - x ELSE x

Min(a, b) == IF a <= b THEN a ELSE b

(***************************************************************************)
(* lib/utils.ts                                                            *)
(***************************************************************************)
Levels == <<"low", "medium", "high", "critical">>

\* position of a level in the order low < medium < high < critical
Rank(level) == CHOOSE i \in 1..Len(Levels) : Levels[i] = level

getRiskLevel_dropEq(s) ==
    IF s > 800 THEN "critical"
    ELSE IF s > 600 THEN "high"
    ELSE IF s > 400 THEN "medium"
    ELSE "low"

getRiskLevel_swapped(s) ==
    IF s >= 800 THEN "critical"
    ELSE IF s >= 600 THEN "medium"
    ELSE IF s >= 400 THEN "high"
    ELSE "low"

getRiskLevel(s) ==
    IF s >= 800 THEN "critical"
    ELSE IF s >= 600 THEN "high"
    ELSE IF s >= 400 THEN "medium"
    ELSE "low"

getRiskColor_swapped(s) ==
    IF s >= 800 THEN "#DC2626"
    ELSE IF s >= 600 THEN "#FCD34D"
    ELSE IF s >= 400 THEN "#F59E0B"
    ELSE "#10B981"

getRiskColor(s) ==
    IF s >= 800 THEN "#DC2626"
    ELSE IF s >= 600 THEN "#F59E0B"
    ELSE IF s >= 400 THEN "#FCD34D"
    ELSE "#10B981"

\* getRiskTextClass, getRiskBgClass, getRiskBorderClass: the tailwind colour
\* name inside the class of a level
riskColorName(level) ==
    CASE level = "critical" -> "risk-critical"
      [] level = "high"     -> "risk-high"
      [] level = "medium"   -> "risk-medium"
      [] level = "low"      -> "risk-low"

\* components/RiskDistributionChart: COLORS
COLORS ==
    [low |-> "#10B981", medium |-> "#FCD34D", high |-> "#F59E0B", critical |-> "#DC2626"]

\* tailwind.config.ts: theme.extend.colors, the risk levels
tailwindColors ==
    ("risk-critical" :> "#DC2626") @@ ("risk-high" :> "#F59E0B")
        @@ ("risk-medium" :> "#FCD34D") @@ ("risk-low" :> "#10B981")

\* README, Design System: the colour of each level and its range of scores
readmeRiskLevels ==
    [critical |-> [color |-> "#DC2626", from |-> 800, to |-> 1000],
     high     |-> [color |-> "#F59E0B", from |-> 600, to |-> 790],
     medium   |-> [color |-> "#FCD34D", from |-> 400, to |-> 590],
     low      |-> [color |-> "#10B981", from |-> 0,   to |-> 390]]

(***************************************************************************)
(* components/RiskGauge                                                    *)
(***************************************************************************)
NoGauge == [mounted |-> FALSE, score |-> 0, riskLevel |-> "", color |-> ""]

RiskGauge(s) ==
    [mounted |-> TRUE, score |-> s,
     riskLevel |-> getRiskLevel(s), color |-> getRiskColor(s)]

(***************************************************************************)
(* components/SHAPWaterfall                                                *)
(*                                                                         *)
(* A contribution is the FeatureContribution object of the source plus     *)
(* ref, its index in the array it was passed in: JavaScript objects have   *)
(* identity, and ref is that identity.                                     *)
(***************************************************************************)
TopN == 7

\* the comparator (a, b) => Math.abs(b.impact) - Math.abs(a.impact)
compareFn_signed(a, b) == b.impact - a.impact

compareFn(a, b) == Abs(b.impact) - Abs(a.impact)

\* One step of Array.prototype.sort, which is stable (ECMAScript 2019): c,
\* which follows everything in sorted in the input, goes in front of the
\* first element the comparator orders after it, and behind every tie.
RECURSIVE insert_unstable(_, _)
insert_unstable(sorted, c) ==
    IF sorted = <<>> THEN <<c>>
    ELSE IF compareFn(Head(sorted), c) >= 0 THEN <<c>> \o sorted
    ELSE <<Head(sorted)>> \o insert_unstable(Tail(sorted), c)

RECURSIVE insert(_, _)
insert(sorted, c) ==
    IF sorted = <<>> THEN <<c>>
    ELSE IF compareFn(Head(sorted), c) > 0 THEN <<c>> \o sorted
    ELSE <<Head(sorted)>> \o insert(Tail(sorted), c)

RECURSIVE sort(_)
sort(arr) ==
    IF arr = <<>> THEN <<>>
    ELSE insert(sort(SubSeq(arr, 1, Len(arr) - 1)), arr[Len(arr)])

\* arr.slice(0, end)
slice(arr, end) == SubSeq(arr, 1, Min(end, Len(arr)))

sortedContributions(cs) == slice(sort(cs), TopN)

\* Sum of |impact| over a list of contributions
RECURSIVE SumAbs(_)
SumAbs(cs) == IF cs = <<>> THEN 0 ELSE Abs(Head(cs).impact) + SumAbs(Tail(cs))

\* One rendered contribution: the chart datum (name, impact, percentage), the
\* fill of its Cell, and the class and prefix of its feature-list entry.
row_renormalised(c, shown) ==
    [ref        |-> c.ref,
     name       |-> c.display_name,
     impact     |-> c.impact,
     percentage |-> IF SumAbs(shown) = 0 THEN 0
                    ELSE (100 * Abs(c.impact)) \div SumAbs(shown),
     fill       |-> IF c.impact > 0 THEN "#F59E0B" ELSE "#10B981",
     class      |-> IF c.impact > 0 THEN "text-risk-high" ELSE "text-risk-low",
     prefix     |-> IF c.impact > 0 THEN "+" ELSE ""]

row_zeroUp(c, shown) ==
    [ref        |-> c.ref,
     name       |-> c.display_name,
     impact     |-> c.impact,
     percentage |-> c.impact_percentage,
     fill       |-> IF c.impact >= 0 THEN "#F59E0B" ELSE "#10B981",
     class      |-> IF c.impact >= 0 THEN "text-risk-high" ELSE "text-risk-low",
     prefix     |-> IF c.impact >= 0 THEN "+" ELSE ""]

row(c, shown) ==
    [ref        |-> c.ref,
     name       |-> c.display_name,
     impact     |-> c.impact,
     percentage |-> c.impact_percentage,
     fill       |-> IF c.impact > 0 THEN "#F59E0B" ELSE "#10B981",
     class      |-> IF c.impact > 0 THEN "text-risk-high" ELSE "text-risk-low",
     prefix     |-> IF c.impact > 0 THEN "+" ELSE ""]

NoWaterfall == [mounted |-> FALSE, rows |-> <<>>, baseRisk |-> 0, finalScore |-> 0]

SHAPWaterfall(cs, baseRisk, finalScore) ==
    LET shown == sortedContributions(cs)
    IN  [mounted    |-> TRUE,
         rows       |-> [i \in 1..Len(shown) |-> row(shown[i], shown)],
         baseRisk   |-> baseRisk,
         finalScore |-> finalScore]

(***************************************************************************)
(* components/ExplanationPanel                                             *)
(***************************************************************************)
NoPanel == [mounted |-> FALSE, riskScore |-> 0, icon |-> "", iconClass |-> ""]

\* the icon in front of explanation.user.headline
ExplanationPanel_critical(riskScore) ==
    [mounted   |-> TRUE,
     riskScore |-> riskScore,
     icon      |-> IF riskScore >= 800 THEN "AlertTriangle" ELSE "CheckCircle",
     iconClass |-> IF riskScore >= 800 THEN "text-risk-high" ELSE "text-risk-low"]

ExplanationPanel(riskScore) ==
    [mounted   |-> TRUE,
     riskScore |-> riskScore,
     icon      |-> IF riskScore >= 600 THEN "AlertTriangle" ELSE "CheckCircle",
     iconClass |-> IF riskScore >= 600 THEN "text-risk-high" ELSE "text-risk-low"]

(***************************************************************************)
(* app/transactions/[id]/page.tsx: the built-in fallback assessment        *)
(***************************************************************************)
mockRiskScore == 780

mockRiskLevel == "high"

mockRecommendedAction_approve == "approve"

mockRecommendedAction == "review"

mockTopFactors_swapped ==
    << [ref |-> 1, feature_name |-> "country_risk", display_name |-> "Country Risk",
        value |-> 7, impact |-> 125, impact_percentage |-> 22,
        direction |-> "increases_risk"],
       [ref |-> 2, feature_name |-> "amount_zscore", display_name |-> "Amount Deviation",
        value |-> 35, impact |-> 100, impact_percentage |-> 32,
        direction |-> "increases_risk"] >>

mockTopFactors ==
    << [ref |-> 1, feature_name |-> "amount_zscore", display_name |-> "Amount Deviation",
        value |-> 35, impact |-> 182, impact_percentage |-> 32,
        direction |-> "increases_risk"],
       [ref |-> 2, feature_name |-> "country_risk", display_name |-> "Country Risk",
        value |-> 7, impact |-> 125, impact_percentage |-> 22,
        direction |-> "increases_risk"],
       [ref |-> 3, feature_name |-> "is_new_device", display_name |-> "New Device",
        value |-> 10, impact |-> 83, impact_percentage |-> 15,
        direction |-> "increases_risk"],
       [ref |-> 4, feature_name |-> "velocity_score", display_name |-> "Velocity Score",
        value |-> 6, impact |-> 61, impact_percentage |-> 11,
        direction |-> "increases_risk"],
       [ref |-> 5, feature_name |-> "is_night", display_name |-> "Night Transaction",
        value |-> 10, impact |-> 42, impact_percentage |-> 7,
        direction |-> "increases_risk"] >>

mockBaseRisk == 150

\* technical.shap_values restricted to the features of top_factors
mockShapValues_topOnly ==
    [amount_zscore |-> 182, country_risk |-> 125, is_new_device |-> 83,
     velocity_score |-> 61, is_night |-> 42]

mockShapValues ==
    [amount_zscore |-> 182, country_risk |-> 125, is_new_device |-> 83,
     velocity_score |-> 61, is_night |-> 42,
     merchant_category_risk |-> 31, distance_from_last_km |-> 28]

mockFeatureValues ==
    [amount |-> 24500, amount_zscore |-> 35, country_risk |-> 7,
     is_new_device |-> 10, velocity_score |-> 6, hour_of_day |-> 230]

\* business.comparison_to_baseline and the velocity factor's description
mockComparisonToBaseline ==
    "Typical transaction for this user: $127.45. This transaction: $2,450.00"

mockVelocityDescription ==
    "5 transactions in the last hour, unusual for this user"

mockAssessment(id) ==
    [transaction_id     |-> id,
     risk_score         |-> mockRiskScore,
     risk_level         |-> mockRiskLevel,
     recommended_action |-> mockRecommendedAction,
     top_factors        |-> mockTopFactors,
     explanation        |->
        << [technical |-> [base_risk      |-> mockBaseRisk,
                           shap_values    |-> mockShapValues,
                           feature_values |-> mockFeatureValues],
            business  |-> [comparison_to_baseline |-> mockComparisonToBaseline,
                           velocity               |-> mockVelocityDescription]] >>]

\* Sum of the values of a record of numbers (a Record<string, number>)
RECURSIVE SumOver(_, _)
SumOver(f, keys) ==
    IF keys = {} THEN 0
    ELSE LET k == CHOOSE x \in keys : TRUE
         IN  f[k] + SumOver(f, keys \ {k})

SumValues(f) == SumOver(f, DOMAIN f)

RECURSIVE SumAbsOver(_, _)
SumAbsOver(f, keys) ==
    IF keys = {} THEN 0
    ELSE LET k == CHOOSE x \in keys : TRUE
         IN  Abs(f[k]) + SumAbsOver(f, keys \ {k})

SumAbsValues(f) == SumAbsOver(f, DOMAIN f)

RECURSIVE SumImpact(_)
SumImpact(rs) == IF rs = <<>> THEN 0 ELSE Head(rs).impact + SumImpact(Tail(rs))

(***************************************************************************)
(* Inputs: the contributions a caller may pass and the assessments the API *)
(* may return.                                                             *)
(***************************************************************************)
\* technical.shap_values lists the features in their declaration order
FeatureOrder ==
    <<"amount_zscore", "country_risk", "is_new_device", "velocity_score",
      "is_night", "merchant_category_risk", "distance_from_last_km">>

\* The i-th contribution of an arbitrary input list, with impact v.  The
\* fields SHAPWaterfall carries along without ordering by them depend on the
\* position alone (a percentage unlike every other one of the list, a
\* direction that alternates), so that a rewritten or exchanged field shows
\* in the output and the direction field is independent of the sign.
Contribution(i, v) ==
    [ref               |-> i,
     feature_name      |-> FeatureOrder[((i - 1) % Len(FeatureOrder)) + 1],
     display_name      |-> FeatureOrder[((i - 1) % Len(FeatureOrder)) + 1],
     value             |-> i,
     impact            |-> v,
     impact_percentage |-> 3 * i + 1,
     direction         |-> IF i % 2 = 1 THEN "increases_risk" ELSE "decreases_risk"]

TransactionIds == {"txn_1", "txn_2"}

Actions == {"approve", "review", "block"}

ApiScores == {0, 399, 400, 795, 1000}

ApiFactorLists ==
    { <<>>,
      <<Contribution(1, -20), Contribution(2, 10), Contribution(3, 0)>> }

ApiExplanations ==
    { <<>>,
      << [technical |-> [base_risk      |-> 100,
                         shap_values    |-> [amount_zscore |-> -20, country_risk |-> 10],
                         feature_values |-> [amount |-> 500]],
          business  |-> [comparison_to_baseline |-> "", velocity |-> ""]] >> }

\* the records of the RiskAssessment interface for transaction id
RiskAssessments(id) ==
    [transaction_id     : {id},
     risk_score         : ApiScores,
     risk_level         : {Levels[i] : i \in 1..Len(Levels)},
     recommended_action : Actions,
     top_factors        : ApiFactorLists,
     explanation        : ApiExplanations]

\* The scoring core behind the API bands the score it returns: critical
\* from 80, high 60-79, medium 40-59, low under 40, each band inclusive at
\* its lower edge.
risk_level(s) ==
    IF s < 400 THEN "low"
    ELSE IF s < 600 THEN "medium"
    ELSE IF s < 800 THEN "high"
    ELSE "critical"

\* what getTransactionDetail(id) may resolve to: a RiskAssessment for id as
\* the scoring core produces it
ApiAssessments(id) ==
    {a \in RiskAssessments(id) : a.risk_level = risk_level(a.risk_score)}

(***************************************************************************)
(* app/transactions/[id]/page.tsx: TransactionDetailPage                   *)
(***************************************************************************)
\* useQuery before the first result: no data, isLoading
QueryLoading == [status |-> "loading", data |-> <<>>]

isLoading(q) == q.status = "loading"

\* const displayData = assessment || mockAssessment
displayData(q, id) ==
    IF q.data # <<>> THEN q.data[1] ELSE mockAssessment(id)

actionButtons ==
    [approve |-> "Approve", review |-> "Review Required", block |-> "Block"]

\* the value of the baseRisk prop the page passes to SHAPWaterfall
PageBaseRisk == 150

LoadingView ==
    [kind |-> "loading", elements |-> {"Loader2"}, transaction_id |-> "",
     badge |-> "", border |-> "", actionLabel |-> "", recommended |-> ""]

\* The elements of the detail view, by the component that renders them.
DetailView(d, id) ==
    [kind           |-> "detail",
     elements       |-> {"Header", "Badge", "ActionButton", "RiskGauge", "Confidence",
                         "ProcessingTime", "Recommended", "TransactionDetails",
                         "ActionButtons", "SHAPWaterfall"}
                        \cup (IF d.explanation # <<>> THEN {"ExplanationPanel"} ELSE {}),
     transaction_id |-> id,
     badge          |-> d.risk_level,
     border         |-> IF d.risk_level \in {"critical", "high", "medium", "low"}
                        THEN d.risk_level ELSE "",
     actionLabel    |-> actionButtons[d.recommended_action],
     recommended    |-> d.recommended_action]

\* One render of the page for the query result q of transaction id.
Render(q, id) ==
    IF isLoading(q)
    THEN /\ page' = LoadingView
         /\ gauge' = NoGauge
         /\ panel' = NoPanel
         /\ contributions' = <<>>
         /\ waterfall' = NoWaterfall
    ELSE LET d == displayData(q, id)
         IN  /\ page' = DetailView(d, id)
             /\ gauge' = RiskGauge(d.risk_score)
             /\ panel' = IF d.explanation # <<>>
                         THEN ExplanationPanel(d.risk_score) ELSE NoPanel
             /\ contributions' = d.top_factors
             /\ waterfall' = SHAPWaterfall(d.top_factors, PageBaseRisk, d.risk_score)

\* no assessment of the core is held
NotScored == [scored |-> FALSE, profile_available |-> TRUE]

\* the query resolves with an assessment, which the core produced with the
\* profile store available or not
FetchSuccess ==
    \E a \in ApiAssessments(transactionId), available \in BOOLEAN :
        /\ query' = [status |-> "success", data |-> <<a>>]
        /\ scoring' = [scored |-> TRUE, profile_available |-> available]
        /\ Render(query', transactionId)
        /\ UNCHANGED <<transactionId, clientVars, handlerVars>>

\* fetchAPI resolves with a null body: the query succeeds with no assessment
FetchEmpty ==
    /\ query' = [status |-> "success", data |-> <<>>]
    /\ scoring' = NotScored
    /\ Render(query', transactionId)
    /\ UNCHANGED <<transactionId, clientVars, handlerVars>>

\* fetchAPI throws (network error or !response.ok); earlier data is kept
FetchError ==
    /\ query' = [status |-> "error", data |-> query.data]
    /\ Render(query', transactionId)
    /\ UNCHANGED <<transactionId, scoring, clientVars, handlerVars>>

\* the route changes to another transaction: a new query key, nothing cached
Navigate ==
    \E id \in TransactionIds :
        /\ id # transactionId
        /\ transactionId' = id
        /\ query' = QueryLoading
        /\ scoring' = NotScored
        /\ Render(query', id)
        /\ UNCHANGED <<clientVars, handlerVars>>

(***************************************************************************)
(* The components on their own, with props drawn from the bounded inputs   *)
(***************************************************************************)
\* a parent renders RiskGauge with score s
RenderGauge ==
    \E s \in Scores :
        /\ gauge' = RiskGauge(s)
        /\ UNCHANGED <<contributions, waterfall, transactionId, query, page, panel, scoring>>
        /\ UNCHANGED <<clientVars, handlerVars>>

\* a parent renders SHAPWaterfall with one more contribution in the list
RenderWaterfall ==
    \E v \in Impacts :
        /\ Len(contributions) < MaxLen
        /\ contributions' = Append(contributions, Contribution(Len(contributions) + 1, v))
        /\ waterfall' = SHAPWaterfall(contributions', PageBaseRisk, mockRiskScore)
        /\ UNCHANGED <<gauge, transactionId, query, page, panel, scoring>>
        /\ UNCHANGED <<clientVars, handlerVars>>

\* a parent renders ExplanationPanel with riskScore s
RenderPanel ==
    \E s \in Scores :
        /\ panel' = ExplanationPanel(s)
        /\ UNCHANGED <<gauge, contributions, waterfall, transactionId, query, page, scoring>>
        /\ UNCHANGED <<clientVars, handlerVars>>

(***************************************************************************)
(* lib/websocket.ts: WebSocketClient                                       *)
(*                                                                         *)
(* The methods are operators from the client's state c (a record of the    *)
(* fields, the sockets and the pending timers) to its state after the      *)
(* call.  A socket is known by its index in sockets.                       *)
(***************************************************************************)
maxReconnectAttempts == 5

reconnectDelay == 1000

\* the urls a client may be constructed with; new WebSocket(u) throws a
\* SyntaxError for one that is no ws: or wss: url
Urls == {"ws://localhost:8000/ws", "localhost:8000/ws"}

WebSocketThrows(u) == u # "ws://localhost:8000/ws"

Channels == {"transactions", "alerts", "dashboard"}

RECURSIVE Pow2(_)
Pow2(n) == IF n <= 0 THEN 1 ELSE 2 * Pow2(n - 1)

\* the fields after construction, with no socket and no timer
NewClient(u) ==
    [url                |-> u,
     ws                 |-> 0,
     reconnectAttempts  |-> 0,
     subscriptions      |-> [ch \in Channels |-> TRUE],
     sockets            |-> <<>>,
     timers             |-> <<>>,
     scheduledSinceOpen |-> 0]

Client ==
    [url                |-> url,
     ws                 |-> ws,
     reconnectAttempts  |-> reconnectAttempts,
     subscriptions      |-> subscriptions,
     sockets            |-> sockets,
     timers             |-> timers,
     scheduledSinceOpen |-> scheduledSinceOpen]

\* this.ws?.readyState === WebSocket.OPEN
isConnected(c) == c.ws # 0 /\ c.sockets[c.ws].readyState = "OPEN"

delay_linear(attempts) == reconnectDelay * attempts

\* const delay = this.reconnectDelay * Math.pow(2, this.reconnectAttempts - 1),
\* computed after this.reconnectAttempts++
delay(attempts) == reconnectDelay * Pow2(attempts - 1)

attemptReconnect_offByOne(c) ==
    IF c.reconnectAttempts > maxReconnectAttempts THEN c
    ELSE LET attempts == c.reconnectAttempts + 1
         IN  [c EXCEPT
                !.reconnectAttempts = attempts,
                !.timers = Append(@, delay(attempts)),
                !.scheduledSinceOpen = @ + 1]

attemptReconnect(c) ==
    IF c.reconnectAttempts >= maxReconnectAttempts THEN c
    ELSE LET attempts == c.reconnectAttempts + 1
         IN  [c EXCEPT
                !.reconnectAttempts = attempts,
                !.timers = Append(@, delay(attempts)),
                !.scheduledSinceOpen = @ + 1]

connect(c) ==
    IF isConnected(c) THEN c
    ELSE IF WebSocketThrows(c.url) THEN attemptReconnect(c)
    ELSE [c EXCEPT
            !.sockets = Append(@, [readyState |-> "CONNECTING", sent |-> <<>>]),
            !.ws = Len(c.sockets) + 1]

subscribe(c, channels) ==
    LET merged == [ch \in DOMAIN c.subscriptions \cup DOMAIN channels |->
                      IF ch \in DOMAIN channels THEN channels[ch]
                      ELSE c.subscriptions[ch]]
    IN  IF isConnected(c)
        THEN [c EXCEPT
                !.subscriptions = merged,
                !.sockets[c.ws].sent =
                    Append(@, [type |-> "subscribe", channels |-> merged])]
        ELSE [c EXCEPT !.subscriptions = merged]

\* the handlers connect() puts on socket i; the socket has changed its
\* readyState when they run
onopen(c, i) == subscribe([c EXCEPT !.reconnectAttempts = 0,
                                    !.scheduledSinceOpen = 0], c.subscriptions)

onclose(c, i) == attemptReconnect([c EXCEPT !.ws = 0])

\* WebSocket.close(): a socket that is connecting or open starts closing
close(readyState) ==
    IF readyState \in {"CONNECTING", "OPEN"} THEN "CLOSING" ELSE readyState

disconnect(c) ==
    IF c.ws # 0
    THEN [c EXCEPT !.sockets[c.ws].readyState = close(@), !.ws = 0]
    ELSE c

\* the functions the callers pass to onMessage: showAlert reads
\* message.data.severity and so throws a TypeError on a message without data
HandlerFns == {"log", "count", "showAlert"}

\* event.data of the incoming messages
Frames ==
    {"{\"type\":\"alert\",\"data\":{\"severity\":\"high\"}}",
     "{\"type\":\"pong\"}",
     "pong",
     ""}

JSONParse_lenient(data) == [ok |-> TRUE, value |-> [type |-> data, data |-> FALSE]]

\* JSON.parse(event.data): the message, or ok is FALSE where it throws a
\* SyntaxError; data tells whether the message has a data member
JSONParse(data) ==
    CASE data = "{\"type\":\"alert\",\"data\":{\"severity\":\"high\"}}" ->
             [ok |-> TRUE, value |-> [type |-> "alert", data |-> TRUE]]
      [] data = "{\"type\":\"pong\"}" ->
             [ok |-> TRUE, value |-> [type |-> "pong", data |-> FALSE]]
      [] OTHER -> [ok |-> FALSE, value |-> [type |-> "", data |-> FALSE]]

\* the call handler(message) throws
Throws(handler, message) == handler = "showAlert" /\ ~message.data

NoInvocations == [h \in HandlerFns |-> 0]

\* no message event was handled
NoDelivery ==
    [received |-> FALSE, data |-> "", invoked |-> NoInvocations, caught |-> FALSE]

onMessage_list(hs, handler) == Append(hs, handler)

\* this.handlers.add(handler): a Set holds a value once, where it was added first
onMessage(hs, handler) ==
    IF \E k \in 1..Len(hs) : hs[k] = handler THEN hs ELSE Append(hs, handler)

\* the function onMessage returns: this.handlers.delete(handler)
unsubscribe(hs, handler) == SelectSeq(hs, LAMBDA h : h # handler)

\* this.handlers.forEach(handler => handler(message)): in insertion order,
\* ended by the first call that throws
RECURSIVE forEach(_, _, _)
forEach(hs, message, invoked) ==
    IF hs = <<>> THEN [invoked |-> invoked, threw |-> FALSE]
    ELSE LET called == [invoked EXCEPT ![Head(hs)] = @ + 1]
         IN  IF Throws(Head(hs), message)
             THEN [invoked |-> called, threw |-> TRUE]
             ELSE forEach(Tail(hs), message, called)

\* ws.onmessage: parse and forEach inside one try, whose catch logs
onmessage(hs, data) ==
    LET parsed == JSONParse(data)
        ran == forEach(hs, parsed.value, NoInvocations)
    IN  IF parsed.ok
        THEN [received |-> TRUE, data |-> data,
              invoked |-> ran.invoked, caught |-> ran.threw]
        ELSE [received |-> TRUE, data |-> data,
              invoked |-> NoInvocations, caught |-> TRUE]

\* the client's state becomes c, within the bounds of the model
Becomes(c) ==
    /\ Len(c.sockets) <= MaxSockets
    /\ Len(c.timers) <= MaxTimers
    /\ ws' = c.ws
    /\ reconnectAttempts' = c.reconnectAttempts
    /\ subscriptions' = c.subscriptions
    /\ sockets' = c.sockets
    /\ timers' = c.timers
    /\ scheduledSinceOpen' = c.scheduledSinceOpen
    /\ delivery' = NoDelivery
    /\ UNCHANGED <<url, handlers, issued, active>>

\* the seq without its k-th element
Without(seq, k) == SubSeq(seq, 1, k - 1) \o SubSeq(seq, k + 1, Len(seq))

\* the user calls connect()
Connect ==
    /\ Becomes(connect(Client))
    /\ calls < MaxCalls
    /\ calls' = calls + 1
    /\ userDisconnected' = FALSE
    /\ UNCHANGED pageVars

\* the user calls disconnect()
Disconnect ==
    /\ Becomes(disconnect(Client))
    /\ calls < MaxCalls
    /\ calls' = calls + 1
    /\ userDisconnected' = (isConnected(Client) \/ userDisconnected)
    /\ UNCHANGED pageVars

\* a pending reconnect timer fires and calls connect()
TimerFires ==
    \E k \in 1..Len(timers) :
        /\ Becomes(connect([Client EXCEPT !.timers = Without(@, k)]))
        /\ UNCHANGED <<userDisconnected, calls, pageVars>>

\* the connection of socket i is established: its open event
SocketOpens ==
    \E i \in 1..Len(sockets) :
        /\ sockets[i].readyState = "CONNECTING"
        /\ Becomes(onopen([Client EXCEPT !.sockets[i].readyState = "OPEN"], i))
        /\ UNCHANGED <<userDisconnected, calls, pageVars>>

\* socket i is closed (the connection failed, the peer or close() ended
\* it): its close event
SocketCloses ==
    \E i \in 1..Len(sockets) :
        /\ sockets[i].readyState # "CLOSED"
        /\ Becomes(onclose([Client EXCEPT !.sockets[i].readyState = "CLOSED"], i))
        /\ UNCHANGED <<userDisconnected, calls, pageVars>>

\* the arguments subscribe() is called with: one channel switched off, one
\* switched on with another off, and a channel the client did not have
ChannelUpdates ==
    {[c \in {"alerts"} |-> FALSE],
     [c \in {"alerts", "transactions"} |-> c = "alerts"],
     [c \in {"sessions"} |-> TRUE]}

\* the user calls subscribe(channels)
Subscribe ==
    \E channels \in ChannelUpdates :
        /\ Becomes(subscribe(Client, channels))
        /\ UNCHANGED <<userDisconnected, calls, pageVars>>

\* a caller registers a handler: onMessage(handler)
OnMessage ==
    \E handler \in HandlerFns :
        /\ Len(onMessage(handlers, handler)) <= MaxHandlers
        /\ handlers' = onMessage(handlers, handler)
        /\ issued' = issued \cup {handler}
        /\ active' = active \cup {handler}
        /\ delivery' = NoDelivery
        /\ UNCHANGED <<pageVars, clientVars>>

\* a caller calls a function that onMessage returned
Unsubscribe ==
    \E handler \in issued :
        /\ handlers' = unsubscribe(handlers, handler)
        /\ active' = active \ {handler}
        /\ delivery' = NoDelivery
        /\ UNCHANGED <<issued, pageVars, clientVars>>

\* an open socket receives a message: its message event
SocketMessage ==
    \E i \in 1..Len(sockets), data \in Frames :
        /\ sockets[i].readyState = "OPEN"
        /\ delivery' = onmessage(handlers, data)
        /\ UNCHANGED <<handlers, issued, active, pageVars, clientVars>>

\* the step stays within the smaller bounds
Brief ==
    /\ Len(sockets') <= MaxBriefSockets
    /\ \A i \in 1..Len(sockets') : Len(sockets'[i].sent) <= MaxSent

(***************************************************************************)
(* Specifications                                                          *)
(***************************************************************************)
\* the page before its query has a result
PageInit ==
    /\ gauge = NoGauge
    /\ contributions = <<>>
    /\ waterfall = NoWaterfall
    /\ transactionId \in TransactionIds
    /\ query = QueryLoading
    /\ page = LoadingView
    /\ panel = NoPanel
    /\ scoring = NotScored

\* a client constructed with url u
ClientInit(u) ==
    /\ url = u
    /\ ws = NewClient(u).ws
    /\ reconnectAttempts = NewClient(u).reconnectAttempts
    /\ subscriptions = NewClient(u).subscriptions
    /\ sockets = NewClient(u).sockets
    /\ timers = NewClient(u).timers
    /\ scheduledSinceOpen = NewClient(u).scheduledSinceOpen
    /\ userDisconnected = FALSE
    /\ calls = 0
    /\ handlers = <<>>
    /\ issued = {}
    /\ active = {}
    /\ delivery = NoDelivery

Init == PageInit /\ ClientInit("ws://localhost:8000/ws")

\* the detail page
Next == FetchSuccess \/ FetchEmpty \/ FetchError \/ Navigate

Spec == Init /\ [][Next]_vars

\* RiskGauge on its own
GaugeSpec == Init /\ [][RenderGauge]_vars

\* SHAPWaterfall on its own
WaterfallSpec == Init /\ [][RenderWaterfall]_vars

\* ExplanationPanel on its own
PanelSpec == Init /\ [][RenderPanel]_vars

\* WebSocketClient, constructed with any of the urls
ClientNext == Connect \/ Disconnect \/ TimerFires \/ SocketOpens \/ SocketCloses

InitClient == PageInit /\ \E u \in Urls : ClientInit(u)

ClientSpec == InitClient /\ [][ClientNext]_vars

\* WebSocketClient with calls of subscribe()
SubscribeNext ==
    \/ Connect /\ Brief
    \/ Disconnect /\ Brief
    \/ TimerFires /\ Brief
    \/ SocketOpens /\ Brief
    \/ SocketCloses /\ Brief
    \/ Subscribe /\ Brief

SubscribeSpec == InitClient /\ [][SubscribeNext]_vars

\* WebSocketClient with message handlers and incoming messages
HandlerNext ==
    \/ Connect /\ Brief
    \/ Disconnect /\ Brief
    \/ TimerFires /\ Brief
    \/ SocketOpens /\ Brief
    \/ SocketCloses /\ Brief
    \/ OnMessage
    \/ Unsubscribe
    \/ SocketMessage

HandlerSpec == InitClient /\ [][HandlerNext]_vars

(***************************************************************************)
(* Properties                                                              *)
(***************************************************************************)
Thresholds == {400, 600, 800}

\* the detail view shows the built-in fallback assessment
FallbackShown == page.kind = "detail" /\ query.data = <<>>

Rows == waterfall.rows

RowIndex == 1..Len(Rows)

\* the input contributions SHAPWaterfall did not retain
Dropped == {k \in 1..Len(contributions) : \A i \in RowIndex : Rows[i].ref # k}

\* C1: the label RiskGauge computes with getRiskLevel is critical for a
\* score >= 80, high for 60 <= score < 80, medium for 40 <= score < 60 and
\* low below 40, so that 40, 60 and 80 each belong to the upper band.
C1_Bands ==
    gauge.mounted =>
        /\ gauge.score >= 800 => gauge.riskLevel = "critical"
        /\ (gauge.score >= 600 /\ gauge.score < 800) => gauge.riskLevel = "high"
        /\ (gauge.score >= 400 /\ gauge.score < 600) => gauge.riskLevel = "medium"
        /\ gauge.score < 400 => gauge.riskLevel = "low"

C1_Witness ==
    /\ gauge.mounted
    /\ gauge.score = 600
    /\ gauge.riskLevel = "high"

\* C2: getRiskLevel is monotone: every score at or below the rendered one
\* has a level at or below the rendered level, and the two levels differ
\* exactly when one of the thresholds 40, 60, 80 lies above the lower score
\* and at or below the rendered one.
C2_Monotone ==
    gauge.mounted =>
        \A s1 \in Scores :
            s1 <= gauge.score =>
                /\ Rank(getRiskLevel(s1)) <= Rank(gauge.riskLevel)
                /\ (getRiskLevel(s1) # gauge.riskLevel)
                      <=> (\E t \in Thresholds : s1 < t /\ t <= gauge.score)

C2_Witness ==
    /\ gauge.mounted
    /\ gauge.score = 799
    /\ gauge.riskLevel = "high"
    /\ \E s1 \in Scores : s1 < gauge.score /\ getRiskLevel(s1) = "low"

\* C3: whatever the order of the input, the rows SHAPWaterfall renders are in
\* non-increasing order of absolute impact.
C3_Ordered ==
    waterfall.mounted =>
        \A i \in RowIndex :
            i < Len(Rows) => Abs(Rows[i].impact) >= Abs(Rows[i + 1].impact)

\* an input that is out of order, with a negative impact ahead of a smaller
\* positive one in the output
C3_Witness ==
    /\ waterfall.mounted
    /\ \E i, j \in 1..Len(contributions) :
          i < j /\ Abs(contributions[i].impact) < Abs(contributions[j].impact)
    /\ \E i \in RowIndex :
          i < Len(Rows) /\ Rows[i].impact < 0 /\ Rows[i + 1].impact > 0

\* C6: SHAPWaterfall retains min(7, n) of the n input contributions, each one
\* once, none of smaller absolute impact than one it dropped, and every
\* retained row shows the impact and the impact_percentage of its input
\* contribution unchanged.
C6_TopNFrame ==
    waterfall.mounted =>
        /\ Len(Rows) = Min(TopN, Len(contributions))
        /\ \A i \in RowIndex :
              /\ Rows[i].ref \in 1..Len(contributions)
              /\ Rows[i].impact = contributions[Rows[i].ref].impact
              /\ Rows[i].percentage = contributions[Rows[i].ref].impact_percentage
        /\ \A i, j \in RowIndex : i # j => Rows[i].ref # Rows[j].ref
        /\ \A k \in Dropped : \A i \in RowIndex :
              Abs(contributions[k].impact) <= Abs(Rows[i].impact)

\* a truncated list whose dropped contribution has weight, so that the
\* percentages over the retained rows alone would differ
C6_Witness ==
    /\ waterfall.mounted
    /\ Len(contributions) > TopN
    /\ Len(Rows) = TopN
    /\ \E k \in Dropped : contributions[k].impact # 0
    /\ \E i \in RowIndex :
          Rows[i].percentage # (100 * Abs(Rows[i].impact)) \div SumAbs(Rows)

\* C10: rows of equal absolute impact appear in the order of the input list,
\* and where a tie straddles the cut the retained contribution precedes the
\* dropped one in the input.
C10_StableTies ==
    waterfall.mounted =>
        /\ \A i, j \in RowIndex :
              (i < j /\ Abs(Rows[i].impact) = Abs(Rows[j].impact))
                  => Rows[i].ref < Rows[j].ref
        /\ \A k \in Dropped : \A i \in RowIndex :
              Abs(contributions[k].impact) = Abs(Rows[i].impact) => Rows[i].ref < k

\* a tie between impacts of opposite sign among the rows, and a tie that
\* straddles the cut
C10_Witness ==
    /\ waterfall.mounted
    /\ \E i, j \in RowIndex :
          i < j /\ Rows[i].impact = 0 - Rows[j].impact /\ Rows[i].impact # 0
    /\ \E k \in Dropped : Abs(contributions[k].impact) = Abs(Rows[Len(Rows)].impact)

\* the technical tier of the assessment on display
Technical == displayData(query, transactionId).explanation[1].technical

\* C4: for the fallback assessment on display, base_risk plus the sum of the
\* technical shap_values equals risk_score, and the waterfall's Base Risk
\* plus the impacts it lists equals its Final Score (all values are whole
\* tenths, so a difference under the tolerance is no difference).
C4_Additivity ==
    FallbackShown =>
        /\ Technical.base_risk + SumValues(Technical.shap_values)
              = displayData(query, transactionId).risk_score
        /\ waterfall.baseRisk + SumImpact(Rows) = waterfall.finalScore

\* the elements of the view of an assessment the API returned
NormalElements ==
    UNION {DetailView(a, transactionId).elements : a \in ApiAssessments(transactionId)}

\* C5: whenever the detail view shows a score, level and action that the API
\* did not return for the requested transaction, the view holds an element
\* that no view of a returned assessment holds (a mark of the degradation).
C5_NoSilentSubstitution ==
    FallbackShown => \E e \in page.elements : e \notin NormalElements

\* C7: every top factor of the fallback assessment on display carries an
\* impact_percentage within one percentage point of 100 * |impact| over the
\* sum of |shap value| of all technical shap_values, and the waterfall shows
\* that percentage.
C7_PercentageOfFullSet ==
    FallbackShown =>
        LET total == SumAbsValues(Technical.shap_values)
        IN  /\ total > 0
            /\ \A i \in 1..Len(contributions) :
                  Abs(contributions[i].impact_percentage * total
                        - 100 * Abs(contributions[i].impact)) <= total
            /\ \A i \in RowIndex :
                  Abs(Rows[i].percentage * total - 100 * Abs(Rows[i].impact)) <= total

\* the attribution set is larger than the factors shown, and a percentage
\* taken over the shown factors alone would be off by more than a point
C7_Witness ==
    /\ FallbackShown
    /\ Len(Rows) = 5
    /\ SumAbsValues(Technical.shap_values) > SumAbs(contributions)
    /\ \E i \in RowIndex :
          Abs(Rows[i].percentage * SumAbs(contributions) - 100 * Abs(Rows[i].impact))
              > SumAbs(contributions)

\* a row drawn as risk-increasing: amber bar, high-risk class, + prefix
Increasing(r) == r.fill = "#F59E0B" /\ r.class = "text-risk-high" /\ r.prefix = "+"

\* a row drawn as risk-decreasing: green bar, low-risk class, no prefix
Decreasing(r) == r.fill = "#10B981" /\ r.class = "text-risk-low" /\ r.prefix = ""

\* C8: every row of the waterfall is drawn as risk-increasing when its impact
\* is above zero and as risk-decreasing otherwise, zero included; for the
\* fallback assessment the drawing agrees with each contribution's direction.
C8_Direction ==
    waterfall.mounted =>
        /\ \A i \in RowIndex :
              IF Rows[i].impact > 0 THEN Increasing(Rows[i]) ELSE Decreasing(Rows[i])
        /\ FallbackShown =>
              \A i \in RowIndex :
                  contributions[Rows[i].ref].direction =
                      IF Increasing(Rows[i]) THEN "increases_risk" ELSE "decreases_risk"

C8_Witness ==
    /\ FallbackShown
    /\ Len(Rows) = Len(mockTopFactors)
    /\ \A i \in RowIndex :
          Increasing(Rows[i]) /\ contributions[Rows[i].ref].direction = "increases_risk"

\* reachable too: an assessment of the API with a zero and a negative impact
\* on display, both drawn as risk-decreasing
C8_ZeroShown ==
    /\ waterfall.mounted
    /\ \E i \in RowIndex : Rows[i].impact = 0 /\ Decreasing(Rows[i])
    /\ \E i \in RowIndex : Rows[i].impact < 0 /\ Decreasing(Rows[i])

\* C9: the fallback assessment on display is the Scenario A transaction
\* (amount 2450, a new device, baseline 127.45, 5 transactions in the last
\* hour): its level is high or critical, amount_zscore is its first
\* contribution, of the largest impact and the first row of the waterfall,
\* and its recommended action is review or block.
C9_ScenarioA ==
    FallbackShown =>
        /\ Technical.feature_values.amount = 24500
        /\ Technical.feature_values.is_new_device = 10
        /\ displayData(query, transactionId).explanation[1].business
              = [comparison_to_baseline |->
                    "Typical transaction for this user: $127.45. This transaction: $2,450.00",
                 velocity |->
                    "5 transactions in the last hour, unusual for this user"]
        /\ page.badge \in {"high", "critical"}
        /\ page.recommended \in {"review", "block"}
        /\ Len(contributions) > 0
        /\ contributions[1].feature_name = "amount_zscore"
        /\ \A i \in 1..Len(contributions) :
              Abs(contributions[i].impact) <= Abs(contributions[1].impact)
        /\ Len(Rows) > 0
        /\ Rows[1].ref = 1

C9_Witness ==
    /\ FallbackShown
    /\ query.status = "error"
    /\ page.badge = "high"
    /\ page.recommended = "review"
    /\ Rows[1].name = "Amount Deviation"

C12_FallbackPolicy ==
    FallbackShown =>
        /\ page.badge = "critical" => page.recommended = "block"
        /\ page.badge = "high" => page.recommended = "review"
        /\ page.badge \in {"low", "medium"} => page.recommended = "approve"
        /\ page.actionLabel = actionButtons[page.recommended]

C12_Witness ==
    /\ FallbackShown
    /\ page.badge = "high"
    /\ page.recommended = "review"
    /\ page.actionLabel = "Review Required"

\* C13: the colour RiskGauge draws a score in (getRiskColor) is the colour
\* of the score's level in the chart's COLORS, in the tailwind theme and in
\* the README table, and the README's colour for the range the score is in.
C13_OneColourPerBand ==
    gauge.mounted =>
        /\ gauge.color = COLORS[gauge.riskLevel]
        /\ gauge.color = tailwindColors[riskColorName(gauge.riskLevel)]
        /\ gauge.color = readmeRiskLevels[gauge.riskLevel].color
        /\ \A l \in DOMAIN readmeRiskLevels :
              (readmeRiskLevels[l].from <= gauge.score
                  /\ gauge.score <= readmeRiskLevels[l].to)
                  => gauge.color = readmeRiskLevels[l].color
        /\ gauge.color \in {"#DC2626", "#F59E0B", "#FCD34D", "#10B981"}

C13_Witness ==
    /\ gauge.mounted
    /\ gauge.score = 400
    /\ gauge.riskLevel = "medium"
    /\ gauge.color = "#FCD34D"
    /\ tailwindColors["risk-medium"] = "#FCD34D"

\* C14: ExplanationPanel puts the warning icon in front of the headline
\* exactly when getRiskLevel of its riskScore is high or critical, that is
\* from 60 up, and the check icon for every low or medium score.
C14_HeadlineIcon ==
    panel.mounted =>
        /\ panel.icon = "AlertTriangle"
              <=> getRiskLevel(panel.riskScore) \in {"high", "critical"}
        /\ panel.icon = "AlertTriangle" <=> panel.riskScore >= 600
        /\ getRiskLevel(panel.riskScore) \in {"low", "medium"}
              => (panel.icon = "CheckCircle" /\ panel.iconClass = "text-risk-low")
        /\ panel.icon = "AlertTriangle" => panel.iconClass = "text-risk-high"

C14_Witness ==
    /\ panel.mounted
    /\ panel.riskScore = 600
    /\ panel.icon = "AlertTriangle"

\* C15: the technical tier of the fallback assessment on display is
\* exhaustive: every feature of shap_values has its raw value in
\* feature_values, and every top factor's impact is the shap value of its
\* feature_name.
C15_TechnicalExhaustive ==
    FallbackShown =>
        /\ DOMAIN Technical.shap_values \subseteq DOMAIN Technical.feature_values
        /\ \A i \in 1..Len(contributions) :
              /\ contributions[i].feature_name \in DOMAIN Technical.shap_values
              /\ Technical.shap_values[contributions[i].feature_name]
                    = contributions[i].impact

Opens(i) ==
    /\ i \in 1..Len(sockets)
    /\ sockets[i].readyState = "CONNECTING"
    /\ sockets'[i].readyState = "OPEN"

\* socket i has its close event in this step
Closes(i) ==
    /\ i \in 1..Len(sockets)
    /\ sockets[i].readyState # "CLOSED"
    /\ sockets'[i].readyState = "CLOSED"

\* a WebSocket is created in this step
Creates == Len(sockets') > Len(sockets)

\* a reconnect is scheduled in this step: attemptReconnect passed its guard
Schedules == reconnectAttempts' = reconnectAttempts + 1

\* C17: reconnectAttempts never exceeds maxReconnectAttempts (5), nor does
\* the number of reconnects scheduled since the last open; the counter
\* goes back to 0 only in a step where a socket opens; and from a state
\* where it is 5 no step (a close, a failed creation, a connect() of the
\* user) schedules a reconnect or adds a timer.
C17_BoundedReconnects ==
    [][/\ reconnectAttempts' <= maxReconnectAttempts
       /\ scheduledSinceOpen' <= maxReconnectAttempts
       /\ scheduledSinceOpen' = reconnectAttempts'
       /\ reconnectAttempts' < reconnectAttempts =>
              /\ reconnectAttempts' = 0
              /\ \E i \in 1..Len(sockets) : Opens(i)
       /\ reconnectAttempts = maxReconnectAttempts =>
              /\ ~Schedules
              /\ Len(timers') <= Len(timers)]_vars

\* five reconnects were scheduled, every timer has fired, and a sixth
\* socket closed with the counter at 5, leaving no timer behind
C17_Witness ==
    /\ reconnectAttempts = maxReconnectAttempts
    /\ timers = <<>>
    /\ ws = 0
    /\ Len(sockets) = maxReconnectAttempts + 1
    /\ \A i \in 1..Len(sockets) : sockets[i].readyState = "CLOSED"

\* C18: once disconnect() has been called on a connected client, and until
\* the user calls connect() again, no step creates a WebSocket and no step
\* schedules a reconnect timer.
C18_StaysDisconnected ==
    [][(userDisconnected /\ userDisconnected') =>
           /\ ~Creates
           /\ ~Schedules
           /\ Len(timers') <= Len(timers)]_vars

\* the sockets that are connecting or open
Live == {i \in 1..Len(sockets) : sockets[i].readyState \in {"CONNECTING", "OPEN"}}

\* C19: in every reachable state at most one WebSocket of the client is
\* connecting or open.
C19_OneLiveSocket == Cardinality(Live) <= 1

\* the most recently created socket is open
LatestOpen == sockets # <<>> /\ sockets[Len(sockets)].readyState = "OPEN"

\* C20: a close event of a socket that is not the client's current socket
\* leaves ws unchanged, and after every step isConnected() is true exactly
\* when the most recently created socket is open.
C20_StaleCloseIgnored ==
    [][/\ \A i \in 1..Len(sockets) : (Closes(i) /\ ws # i) => ws' = ws
       /\ isConnected(Client)' <=> LatestOpen']_vars

\* the delays of the first to the fifth reconnect, in ms
Delays == <<1000, 2000, 4000, 8000, 16000>>

\* the timer added by the step
Scheduled == timers'[Len(timers')]

\* C21: the k-th reconnect scheduled since the last open (k = 1..5) gets
\* a delay of 1000 * 2^(k-1) ms, that is 1000, 2000, 4000, 8000, 16000: more
\* than the one before it, and 1000 again for the first after an open.
C21_Backoff ==
    [][Schedules =>
           LET k == scheduledSinceOpen'
           IN  /\ k \in 1..maxReconnectAttempts
               /\ timers' # <<>>
               /\ Scheduled = Delays[k]
               /\ k > 1 => Scheduled > Delays[k - 1]
               /\ scheduledSinceOpen = 0 => Scheduled = 1000]_vars

\* the fifth reconnect since the last open is pending with its 16000 ms
C21_Witness ==
    /\ scheduledSinceOpen = maxReconnectAttempts
    /\ timers # <<>>
    /\ timers[Len(timers)] = 16000

(***************************************************************************)
(* WebSocketClient: subscriptions                                          *)
(***************************************************************************)
\* what the map m becomes when the map u is merged into it
Merged(m, u) ==
    [ch \in DOMAIN m \cup DOMAIN u |-> IF ch \in DOMAIN u THEN u[ch] ELSE m[ch]]

\* the subscribe message carrying the map m
SubscribeMessage(m) == [type |-> "subscribe", channels |-> m]

\* C22: the subscription map changes only by merging the argument of a
\* subscribe() call into it, with the socket open or not, and in a step
\* where a socket opens the client sends on it one subscribe message
\* carrying the full current map.
C22_SubscribeOnOpen ==
    [][/\ subscriptions' # subscriptions =>
              \E u \in ChannelUpdates : subscriptions' = Merged(subscriptions, u)
       /\ \A i \in 1..Len(sockets) :
              Opens(i) =>
                  sockets'[i].sent =
                      Append(sockets[i].sent, SubscribeMessage(subscriptions'))]_vars

(***************************************************************************)
(* WebSocketClient: message handlers                                       *)
(***************************************************************************)
\* event.data is the text of a JSON value
WellFormed(data) ==
    data \in {"{\"type\":\"alert\",\"data\":{\"severity\":\"high\"}}",
              "{\"type\":\"pong\"}"}

\* the step handles a message event with well-formed data
Delivers == delivery'.received /\ WellFormed(delivery'.data)

\* the step handles a message event whose data is not valid JSON
Rejects == delivery'.received /\ ~WellFormed(delivery'.data)

\* a step of the connection leaves the registrations alone
RegistrationsSurvive ==
    (sockets' # sockets \/ ws' # ws \/ timers' # timers) =>
        handlers' = handlers /\ active' = active

RejectsQuietly ==
    Rejects =>
        /\ delivery'.invoked = NoInvocations
        /\ UNCHANGED <<ws, sockets, reconnectAttempts, subscriptions,
                       handlers, timers>>

\* the step handles a well-formed message right after one that was not
\* valid JSON
DeliversAfterRejected ==
    /\ delivery.received
    /\ ~WellFormed(delivery.data)
    /\ Delivers

C25_ThrowIsolated ==
    [][(Delivers /\ delivery'.caught) =>
           \A h \in active : delivery'.invoked[h] >= 1]_vars

====
